---- MODULE Spec2Model ----
(***************************************************************************)
(* Model of server/services/common.js of strapi-plugin-comments: the       *)
(* cascading field update (modifiedNestedNestedComments), the flat read    *)
(* (findAllFlat, with pagination, count and related-entity resolution),    *)
(* the relation codec (parseRelationString) and the configuration          *)
(* resolver (getConfig / getLocalConfig).                                  *)
(*                                                                         *)
(* Three specifications share the module:                                  *)
(*   Spec      - the cascading update over a comment forest;               *)
(*   SpecFlat  - findAllFlat;                                              *)
(*   SpecCodec - getConfig and parseRelationString.                        *)
(***************************************************************************)
EXTENDS Integers, Sequences, FiniteSets, TLC

VARIABLES
    strapi,            \* the keys the injected strapi object defines
    store,             \* the comment collection: id -> record
    args,              \* arguments of the running cascade, or NoArgs
    pc,                \* per invocation of modifiedNestedNestedComments: its position
    entitiesToChange,  \* per invocation: ids findMany returned (line 234)
    changedEntities,   \* per invocation: ids updateMany returned (line 238)
    result,            \* per invocation: how its promise settled
    threw,             \* per invocation: what was thrown inside its try block
    faults,            \* store errors and short updates the store has produced
    flatPc,            \* position of the running findAllFlat
    flatArgs,          \* its arguments: pagination, query, relatedEntity
    queryExtension,    \* offset and limit handed to findMany (lines 80-84)
    meta,              \* response metadata under construction (lines 71, 98, 123)
    entries,           \* what findMany returned (line 103)
    entriesWithThreads,\* thread annotation per entry (line 135)
    lookups,           \* the per-collection lookups of findRelatedEntitiesFor, in issue order
    arrival,           \* the order in which those lookups completed
    response,          \* what findAllFlat returned
    remoteConfig,      \* the plugin store's 'config' document, or null
    localConfig,       \* the static configuration under plugin.comments, or undefined
    codecCall,         \* the last call of getConfig or parseRelationString
    codecResult        \* how that call settled

sharedVars == <<strapi, store>>

cascadeVars ==
    <<args, pc, entitiesToChange, changedEntities, result, threw, faults>>

flatVars ==
    <<flatPc, flatArgs, queryExtension, meta, entries, entriesWithThreads,
      lookups, arrival, response>>

codecVars == <<remoteConfig, localConfig, codecCall, codecResult>>

vars == <<sharedVars, cascadeVars, flatVars, codecVars>>

----------------------------------------------------------------------------
(* Bounds *)

NumComments == 4
MaxFaults == 2
MaxFlat == 11

----------------------------------------------------------------------------
(* JavaScript values, and the lodash functions the file imports (line 4) *)

\* Strings are sequences of one-character strings.
Undefined == [t |-> "undefined"]
Null == [t |-> "null"]
NaN == [t |-> "NaN"]
Num(n) == [t |-> "number", v |-> n]
Str(chars) == [t |-> "string", s |-> chars]
Bool(b) == [t |-> "boolean", b |-> b]

isNil(x) == x.t \in {"undefined", "null"}

\* lodash isNumber: typeof value == 'number', which NaN is.
isNumber(x) == x.t \in {"number", "NaN"}

Truthy(x) ==
    CASE x.t \in {"undefined", "null", "NaN"} -> FALSE
      [] x.t = "number" -> x.v # 0
      [] x.t = "string" -> x.s # <<>>
      [] x.t = "boolean" -> x.b
      [] OTHER -> TRUE

DigitChars == <<"0", "1", "2", "3", "4", "5", "6", "7", "8", "9">>

IsDigit(ch) == \E i \in 1..10 : DigitChars[i] = ch
DigitValue(ch) == (CHOOSE i \in 1..10 : DigitChars[i] = ch) - 1

RECURSIVE NatToChars(_)
NatToChars(n) ==
    IF n < 10 THEN <<DigitChars[n + 1]>>
    ELSE NatToChars(n \div 10) \o <<DigitChars[(n % 10) + 1]>>

IntToChars(n) == IF n < 0 THEN <<"-">> \o NatToChars(-n) ELSE NatToChars(n)

\* String(value), as a template literal converts it.
TemplateChars(x) ==
    CASE x.t = "undefined" -> <<"u", "n", "d", "e", "f", "i", "n", "e", "d">>
      [] x.t = "null" -> <<"n", "u", "l", "l">>
      [] x.t = "NaN" -> <<"N", "a", "N">>
      [] x.t = "number" -> IntToChars(x.v)
      [] x.t = "string" -> x.s
      [] x.t = "boolean" -> IF x.b THEN <<"t", "r", "u", "e">>
                            ELSE <<"f", "a", "l", "s", "e">>

\* lodash toString: '' for null and undefined, String(value) otherwise.
LodashToChars(x) == IF isNil(x) THEN <<>> ELSE TemplateChars(x)

\* The longest prefix of decimal digits, as a number.
RECURSIVE DigitPrefixValue(_, _)
DigitPrefixValue(chars, acc) ==
    IF chars = <<>> \/ ~IsDigit(Head(chars)) THEN acc
    ELSE DigitPrefixValue(Tail(chars), 10 * acc + DigitValue(Head(chars)))

\* Native parseInt on a string: an optional sign, then the leading decimal
\* digits; NaN when there is none. (No input here carries a 0x prefix.)
ParseIntChars(chars) ==
    LET neg == chars # <<>> /\ Head(chars) = "-"
        body == IF chars # <<>> /\ Head(chars) \in {"-", "+"} THEN Tail(chars) ELSE chars
    IN  IF body = <<>> \/ ~IsDigit(Head(body)) THEN NaN
        ELSE Num(IF neg THEN -DigitPrefixValue(body, 0) ELSE DigitPrefixValue(body, 0))

\* lodash parseInt(value): nativeParseInt(toString(value)).
parseInt(x) == ParseIntChars(LodashToChars(x))

Range(f) == { f[x] : x \in DOMAIN f }

\* Property read on an object kept as a function from keys to values.
Prop(obj, key) == IF key \in DOMAIN obj THEN obj[key] ELSE Undefined

JsMinus(a, b) == IF a.t = "number" /\ b.t = "number" THEN Num(a.v - b.v) ELSE NaN
JsTimes(a, b) == IF a.t = "number" /\ b.t = "number" THEN Num(a.v * b.v) ELSE NaN
\* Math.floor(a / b) and a % b, for a >= 0 and b > 0; NaN for operands that
\* are not numbers.
JsFloorDiv(a, b) ==
    IF a.t = "number" /\ b.t = "number" /\ a.v >= 0 /\ b.v > 0 THEN Num(a.v \div b.v) ELSE NaN
JsMod(a, b) ==
    IF a.t = "number" /\ b.t = "number" /\ a.v >= 0 /\ b.v > 0 THEN Num(a.v % b.v) ELSE NaN
JsPlusOne(a) == IF a.t = "number" THEN Num(a.v + 1) ELSE NaN

----------------------------------------------------------------------------
(* The comment store of the cascade *)

Ids == 1..NumComments
NoParent == 0
FieldNames == {"blocked", "blockedThread"}
NoArgs == [rootId |-> 0, fieldName |-> "none", value |-> FALSE]

\* Forests in which a reply has a larger id than the comment it replies to:
\* every shape of an acyclic forest, up to renaming of ids. Flags start false.
Forests == { f \in [Ids -> {NoParent} \cup Ids] : \A c \in Ids : f[c] < c }

\* Collection ids and relation tokens "<collectionId>:<recordId>".
Art == <<"a", "r", "t">>
Pg == <<"p", "g">>
Tag == <<"t", "a", "g">>

Encode(uid, id) == uid \o <<":">> \o TemplateChars(id)

TokenCycle ==
    << Encode(Art, Num(1)), Encode(Pg, Num(1)), Encode(Art, Num(42)),
       Encode(Tag, Str(<<"a", "b", "c">>)), Encode(Pg, Num(7)), Encode(Art, Num(9)) >>

CommentOf(id, parent) ==
    [id |-> id, threadOf |-> parent,
     related |-> TokenCycle[((id - 1) % Len(TokenCycle)) + 1],
     blocked |-> FALSE, blockedThread |-> FALSE]

Children(id) == { k \in DOMAIN store : store[k].threadOf = id }

RECURSIVE IsDescendant(_, _)
IsDescendant(d, a) ==
    LET p == store[d].threadOf
    IN  IF p = NoParent THEN FALSE
        ELSE p = a \/ IsDescendant(p, a)

Descendants(a) == { d \in DOMAIN store : IsDescendant(d, a) }

----------------------------------------------------------------------------
(* modifiedNestedNestedComments *)

\* strapi.bd / strapi.db: a key the object does not define reads as undefined,
\* and calling .query on undefined throws a TypeError. The cascade reads
\* strapi.bd (lines 234, 238), every other method reads strapi.db. The object
\* is injected (line 20): Strapi's own defines db and no bd; a host object on
\* which bd resolves to the query engine as well is the other initial state.
HandleDefined(key) == key \in strapi

\* where: { threadOf: id }
findMany(id) == Children(id)

\* where: { id: entitiesToChange.map(_ => _.id) }
UpdateWhereIdsWithParent(id, fetched) == fetched \cup {id}
UpdateWhereIds(id, fetched) == fetched

\* (entitiesToChange.length === changedEntities.length) && (changedEntities.length > 0)
ShouldRecurseOnAnyChange(fetched, changed) == Cardinality(changed) > 0
ShouldRecurse(fetched, changed) ==
    Cardinality(fetched) = Cardinality(changed) /\ Cardinality(changed) > 0

\* return nestedTransactions.length === changedEntities.length
JoinResult(nestedTransactions, changed) ==
    IF Cardinality(DOMAIN nestedTransactions) = Cardinality(changed)
    THEN "true" ELSE "false"

\* catch (e) { return false; }
OnCatchRethrow == "rejected"
OnCatch == "false"

Caught(c, what) ==
    /\ pc' = [pc EXCEPT ![c] = "done"]
    /\ result' = [result EXCEPT ![c] = OnCatch]
    /\ threw' = [threw EXCEPT ![c] = what]

\* The caller invokes the cascade on a comment.
Call(rootId, fieldName, value) ==
    /\ args = NoArgs
    /\ args' = [rootId |-> rootId, fieldName |-> fieldName, value |-> value]
    /\ pc' = [pc EXCEPT ![rootId] = "fetch"]
    /\ UNCHANGED <<strapi, store, entitiesToChange, changedEntities, result, threw, faults>>
    /\ UNCHANGED <<flatVars, codecVars>>

\* Line 234, the handle does not resolve: TypeError, caught at line 250.
FetchNoHandle(c) ==
    /\ pc[c] = "fetch"
    /\ ~HandleDefined("bd")
    /\ Caught(c, "TypeError")
    /\ UNCHANGED <<strapi, store, args, entitiesToChange, changedEntities, faults>>
    /\ UNCHANGED <<flatVars, codecVars>>

\* Lines 234-237: findMany returns the immediate children.
Fetch(c) ==
    /\ pc[c] = "fetch"
    /\ HandleDefined("bd")
    /\ entitiesToChange' = [entitiesToChange EXCEPT ![c] = findMany(c)]
    /\ pc' = [pc EXCEPT ![c] = "update"]
    /\ UNCHANGED <<strapi, store, args, changedEntities, result, threw, faults>>
    /\ UNCHANGED <<flatVars, codecVars>>

\* Lines 234-237: findMany rejects.
FetchFails(c) ==
    /\ pc[c] = "fetch"
    /\ HandleDefined("bd")
    /\ faults < MaxFaults
    /\ faults' = faults + 1
    /\ Caught(c, "StoreError")
    /\ UNCHANGED <<strapi, store, args, entitiesToChange, changedEntities>>
    /\ UNCHANGED <<flatVars, codecVars>>

\* Lines 238-242: updateMany sets the field on the records it updates and
\* returns them. A store that updates fewer records than it matched is a fault.
Update(c) ==
    /\ pc[c] = "update"
    /\ HandleDefined("bd")
    /\ LET matched == UpdateWhereIds(c, entitiesToChange[c]) \cap DOMAIN store
       IN  \E updated \in SUBSET matched :
              /\ updated # matched => faults < MaxFaults
              /\ faults' = IF updated # matched THEN faults + 1 ELSE faults
              /\ store' = [k \in DOMAIN store |->
                             IF k \in updated
                             THEN [store[k] EXCEPT ![args.fieldName] = args.value]
                             ELSE store[k]]
              /\ changedEntities' = [changedEntities EXCEPT ![c] = updated]
    /\ pc' = [pc EXCEPT ![c] = "check"]
    /\ UNCHANGED <<strapi, args, entitiesToChange, result, threw>>
    /\ UNCHANGED <<flatVars, codecVars>>

\* Lines 238-242: updateMany rejects, nothing is written.
UpdateFails(c) ==
    /\ pc[c] = "update"
    /\ HandleDefined("bd")
    /\ faults < MaxFaults
    /\ faults' = faults + 1
    /\ Caught(c, "StoreError")
    /\ UNCHANGED <<strapi, store, args, entitiesToChange, changedEntities>>
    /\ UNCHANGED <<flatVars, codecVars>>

\* Lines 243-246: the counts agree and are not zero; every updated child gets
\* its own invocation, each running up to its first await.
Recurse(c) ==
    /\ pc[c] = "check"
    /\ ShouldRecurse(entitiesToChange[c], changedEntities[c])
    /\ pc' = [k \in DOMAIN pc |->
                IF k = c THEN "await"
                ELSE IF k \in changedEntities[c] THEN "fetch" ELSE pc[k]]
    /\ UNCHANGED <<strapi, store, args, entitiesToChange, changedEntities, result, threw, faults>>
    /\ UNCHANGED <<flatVars, codecVars>>

\* Line 249: no recursion.
ReturnTrue(c) ==
    /\ pc[c] = "check"
    /\ ~ShouldRecurse(entitiesToChange[c], changedEntities[c])
    /\ pc' = [pc EXCEPT ![c] = "done"]
    /\ result' = [result EXCEPT ![c] = "true"]
    /\ UNCHANGED <<strapi, store, args, entitiesToChange, changedEntities, threw, faults>>
    /\ UNCHANGED <<flatVars, codecVars>>

\* Lines 244-247: Promise.all settles once every nested invocation has.
Join(c) ==
    /\ pc[c] = "await"
    /\ \A k \in changedEntities[c] : pc[k] = "done"
    /\ IF \E k \in changedEntities[c] : result[k] = "rejected"
       THEN Caught(c, "Rejection")
       ELSE /\ pc' = [pc EXCEPT ![c] = "done"]
            /\ result' = [result EXCEPT ![c] =
                   JoinResult([k \in changedEntities[c] |-> result[k]], changedEntities[c])]
            /\ UNCHANGED threw
    /\ UNCHANGED <<strapi, store, args, entitiesToChange, changedEntities, faults>>
    /\ UNCHANGED <<flatVars, codecVars>>

\* The state of the other operations while none of them is running.
EmptyObj == <<>>

FlatIdle ==
    /\ flatPc = "idle"
    /\ flatArgs = EmptyObj
    /\ queryExtension = EmptyObj
    /\ meta = EmptyObj
    /\ entries = <<>>
    /\ entriesWithThreads = <<>>
    /\ lookups = <<>>
    /\ arrival = <<>>
    /\ response = EmptyObj

CodecIdle ==
    /\ remoteConfig = Null
    /\ localConfig = Undefined
    /\ codecCall = EmptyObj
    /\ codecResult = EmptyObj

CascadeIdle ==
    /\ args = NoArgs
    /\ pc = [c \in DOMAIN store |-> "idle"]
    /\ entitiesToChange = [c \in DOMAIN store |-> {}]
    /\ changedEntities = [c \in DOMAIN store |-> {}]
    /\ result = [c \in DOMAIN store |-> "pending"]
    /\ threw = [c \in DOMAIN store |-> "nothing"]
    /\ faults = 0

Init ==
    /\ strapi \in {{"db"}, {"db", "bd"}}
    /\ \E f \in Forests : store = [c \in Ids |-> CommentOf(c, f[c])]
    /\ CascadeIdle
    /\ FlatIdle
    /\ CodecIdle

Next ==
    \/ \E rootId \in Ids, fieldName \in FieldNames, value \in BOOLEAN :
          Call(rootId, fieldName, value)
    \/ \E c \in Ids : FetchNoHandle(c)
    \/ \E c \in Ids : Fetch(c)
    \/ \E c \in Ids : FetchFails(c)
    \/ \E c \in Ids : Update(c)
    \/ \E c \in Ids : UpdateFails(c)
    \/ \E c \in Ids : Recurse(c)
    \/ \E c \in Ids : ReturnTrue(c)
    \/ \E c \in Ids : Join(c)

Spec == Init /\ [][Next]_vars

----------------------------------------------------------------------------
(* Properties of the cascading update *)

RootDone == args # NoArgs /\ pc[args.rootId] = "done"

InitialFlag == FALSE

\* An invocation that got past both store calls.
Settled(c) == pc[c] \in {"await", "done"} /\ threw[c] = "nothing"

CountsMismatch(c) ==
    Cardinality(entitiesToChange[c]) # Cardinality(changedEntities[c])

\* C1: once the cascade started on rootId has returned, with a store that
\* never failed and updated every record it matched, every descendant of
\* rootId carries fieldName = value.
C1_AllDescendantsUpdated ==
    (RootDone /\ faults = 0) =>
        \A d \in Descendants(args.rootId) : store[d][args.fieldName] = args.value

\* C2: a level whose fetch returned n records and whose update reported
\* m # n records returns true, starts no invocation on any child, raises
\* nothing, and leaves everything below its children unmodified.
C2_MismatchStopsBranch ==
    \A c \in Ids :
        (Settled(c) /\ CountsMismatch(c)) =>
            /\ pc[c] = "done"
            /\ result[c] = "true"
            /\ \A k \in Children(c) :
                  /\ pc[k] = "idle"
                  /\ \A d \in Descendants(k) : store[d][args.fieldName] = InitialFlag

C2_Witness ==
    \E c \in Ids :
        /\ pc[c] = "done" /\ threw[c] = "nothing"
        /\ Cardinality(entitiesToChange[c]) = 2
        /\ Cardinality(changedEntities[c]) = 1
        /\ result[c] = "true"
        /\ \E k \in changedEntities[c] : Descendants(k) # {}
        /\ args.value = TRUE

\* C3: no invocation, at any depth, settles by rejecting; an invocation in
\* which the fetch or the update threw returns false.
C3_NeverRaises ==
    \A c \in Ids :
        /\ result[c] # "rejected"
        /\ threw[c] # "nothing" => (pc[c] = "done" /\ result[c] = "false")

C3_Witness ==
    /\ RootDone
    /\ \E c \in Ids : c # args.rootId /\ threw[c] = "StoreError"
    /\ \E c \in Ids : threw[c] = "StoreError" /\ entitiesToChange[c] # {}

\* C9: a level whose counts are equal and non-zero returns true only if every
\* nested invocation returned true; so a store error at a deeper level makes
\* the invocation on the root return false.
C9_TrueOnlyIfChildrenTrue ==
    /\ \A c \in Ids :
          ( /\ pc[c] = "done" /\ threw[c] = "nothing"
            /\ ~CountsMismatch(c) /\ changedEntities[c] # {}
            /\ result[c] = "true" )
          => \A k \in changedEntities[c] : result[k] = "true"
    /\ (RootDone /\ \E c \in Ids : c # args.rootId /\ threw[c] = "StoreError")
          => result[args.rootId] = "false"

\* C10: a step of the cascade changes nothing in the store but fieldName, to
\* value, on proper descendants of rootId: parent links, the other field, the
\* root and the comments outside its subtree stay as they were.
C10_Frame ==
    [][ \A c \in Ids :
          /\ store'[c].threadOf = store[c].threadOf
          /\ \A f \in FieldNames \ {args'.fieldName} : store'[c][f] = store[c][f]
          /\ store'[c] # store[c] =>
                /\ IsDescendant(c, args'.rootId)
                /\ store'[c][args'.fieldName] = args'.value
      ]_vars

C10_Witness ==
    /\ RootDone
    /\ \E c \in Ids : pc[c] = "done" /\ threw[c] = "nothing" /\ entitiesToChange[c] = {}
    /\ \E c \in Ids : store[c][args.fieldName] # InitialFlag
    /\ \E c \in Ids : ~IsDescendant(c, args.rootId) /\ c # args.rootId
    /\ faults > 0

----------------------------------------------------------------------------
(* findAllFlat *)

DefaultPage == 1
DefaultPageSize == 10
DefaultStart == 0
DefaultLimit == 10

TrueChars == <<"t", "r", "u", "e">>

\* Destructuring default: used when the property is undefined.
OrDefault(x, d) == IF x.t = "undefined" THEN d ELSE x

\* The external collections comments relate to; tag keeps string ids.
RelatedCollections ==
    (Art :> << [id |-> Num(1)], [id |-> Num(2)], [id |-> Num(42)] >>) @@
    (Pg  :> << [id |-> Num(1)], [id |-> Num(7)] >>) @@
    (Tag :> << [id |-> Str(<<"a", "b", "c">>)] >>)

\* A fetched record, tagged with its collection (lines 213-218).
Entity(uid, id) == [t |-> "object", uid |-> uid, id |-> id]

\* The comment collection findAllFlat reads: n comments, three replies under
\* each of the first ones.
FlatStore(n) == [i \in 1..n |-> CommentOf(i, i \div 3)]

StoreSizes == {0, 3, MaxFlat - 1, MaxFlat}

PaginationKeys == {"page", "pageSize", "start", "limit", "withCount"}

\* A pagination object holding the keys that were given.
PaginationObj(page, pageSize, start, limit, withCount) ==
    LET all == [k \in PaginationKeys |->
                  CASE k = "page" -> page
                    [] k = "pageSize" -> pageSize
                    [] k = "start" -> start
                    [] k = "limit" -> limit
                    [] k = "withCount" -> withCount]
    IN  [k \in {x \in PaginationKeys : all[x] # Undefined} |-> all[k]]

PageInputs == {Undefined, Num(1), Num(2), Str(<<"2">>)}
PageSizeInputs == {Undefined, Num(3), Num(5), Str(<<"5">>)}
StartInputs == {Undefined, Num(2)}
LimitInputs == {Undefined, Num(3)}
WithCountInputs == {Undefined, Bool(TRUE), Bool(FALSE), Str(TrueChars)}

QueryInputs ==
    { EmptyObj,
      [k \in {"related"} |-> Str(Encode(Art, Num(1)))],
      [k \in {"threadOf"} |-> Num(1)] }

RelatedEntityInputs ==
    { Null, Bool(FALSE), Entity(Str(Art), Num(1)), Entity(Undefined, Num(1)) }

\* pagination && isObject(pagination)
IsPaginationObject(pagination) == pagination # Undefined

\* Lines 73-76.
ParsedPagination(pagination) == [k \in DOMAIN pagination |-> parseInt(pagination[k])]

\* Line 78.
PaginationByPage(parsed) ==
    ~isNil(Prop(parsed, "page")) \/ ~isNil(Prop(parsed, "pageSize"))

\* Lines 77-84.
QueryExtensionOffByOne(pagination) ==
    IF ~IsPaginationObject(pagination) THEN EmptyObj
    ELSE LET parsed == ParsedPagination(pagination)
             page == OrDefault(Prop(parsed, "page"), Num(DefaultPage))
             pageSize == OrDefault(Prop(parsed, "pageSize"), Num(DefaultPageSize))
             start == OrDefault(Prop(parsed, "start"), Num(DefaultStart))
             limit == OrDefault(Prop(parsed, "limit"), Num(DefaultLimit))
         IN  [k \in {"offset", "limit"} |->
                IF k = "offset"
                THEN IF PaginationByPage(parsed) THEN JsTimes(page, pageSize) ELSE start
                ELSE IF PaginationByPage(parsed) THEN pageSize ELSE limit]
QueryExtension(pagination) ==
    IF ~IsPaginationObject(pagination) THEN EmptyObj
    ELSE LET parsed == ParsedPagination(pagination)
             page == OrDefault(Prop(parsed, "page"), Num(DefaultPage))
             pageSize == OrDefault(Prop(parsed, "pageSize"), Num(DefaultPageSize))
             start == OrDefault(Prop(parsed, "start"), Num(DefaultStart))
             limit == OrDefault(Prop(parsed, "limit"), Num(DefaultLimit))
         IN  [k \in {"offset", "limit"} |->
                IF k = "offset"
                THEN IF PaginationByPage(parsed)
                     THEN JsTimes(JsMinus(page, Num(1)), pageSize) ELSE start
                ELSE IF PaginationByPage(parsed) THEN pageSize ELSE limit]

\* Lines 86-100.
MetaPagination(pagination) ==
    IF ~IsPaginationObject(pagination) THEN EmptyObj
    ELSE LET parsed == ParsedPagination(pagination)
             page == OrDefault(Prop(parsed, "page"), Num(DefaultPage))
             pageSize == OrDefault(Prop(parsed, "pageSize"), Num(DefaultPageSize))
             start == OrDefault(Prop(parsed, "start"), Num(DefaultStart))
             limit == OrDefault(Prop(parsed, "limit"), Num(DefaultLimit))
         IN  [k \in {"pagination"} |->
                IF PaginationByPage(parsed)
                THEN [j \in {"page", "pageSize"} |-> IF j = "page" THEN page ELSE pageSize]
                ELSE [j \in {"start", "limit"} |-> IF j = "start" THEN start ELSE limit]]

\* where: { ...query }
Matches(c, where) ==
    /\ "related" \in DOMAIN where => where["related"] = Str(c.related)
    /\ "threadOf" \in DOMAIN where => where["threadOf"] = Num(c.threadOf)

\* The ids 1..n that satisfy the criteria, in natural order.
RECURSIVE MatchingUpTo(_, _)
MatchingUpTo(n, where) ==
    IF n = 0 THEN <<>>
    ELSE MatchingUpTo(n - 1, where) \o
         (IF Matches(store[n], where) THEN <<store[n]>> ELSE <<>>)

Matching(where) == MatchingUpTo(Cardinality(DOMAIN store), where)

Min(a, b) == IF a < b THEN a ELSE b

\* The store's findMany with criteria and, when given, offset and limit.
StoreFindMany(where, extension) ==
    LET all == Matching(where)
    IN  IF "offset" \notin DOMAIN extension THEN all
        ELSE SubSeq(all, extension["offset"].v + 1,
                    Min(Len(all), extension["offset"].v + extension["limit"].v))

\* Line 115.
WithCountRequested(pagination) ==
    LET withCount == IF IsPaginationObject(pagination)
                     THEN Prop(pagination, "withCount") ELSE Undefined
    IN  Truthy(withCount) /\ (withCount = Str(TrueChars) \/ withCount = Bool(TRUE))

\* Lines 122, 127-129.
PageCountFloorOnly(total, metaPagination) ==
    IF ~isNil(Prop(metaPagination, "page"))
    THEN JsFloorDiv(total, Prop(metaPagination, "pageSize"))
    ELSE Undefined
PageCount(total, metaPagination) ==
    LET pageCount == JsFloorDiv(total, Prop(metaPagination, "pageSize"))
    IN  IF ~isNil(Prop(metaPagination, "page"))
        THEN IF JsMod(total, Prop(metaPagination, "pageSize")) = Num(0)
             THEN pageCount ELSE JsPlusOne(pageCount)
        ELSE Undefined

\* Lines 123-132.
MetaWithCount(m, total) ==
    [k \in {"pagination"} |->
        [j \in DOMAIN m["pagination"] \cup {"pageCount", "total"} |->
            CASE j = "pageCount" -> PageCount(total, m["pagination"])
              [] j = "total" -> total
              [] OTHER -> m["pagination"][j]]]

\* Lines 135-143: one findWithCount per entry, for threadOf = its id.
ThreadSummary(entry) ==
    LET nested == Matching([k \in {"threadOf"} |-> Num(entry.id)])
    IN  [id |-> entry.id,
         itemsInTread |-> Len(nested),
         firstThreadItemId |-> IF nested = <<>> THEN Undefined ELSE Num(nested[1].id)]

\* getRelatedGroups: the token split at its last colon.
RECURSIVE LastColon(_, _)
LastColon(chars, i) ==
    IF i = 0 THEN 0 ELSE IF chars[i] = ":" THEN i ELSE LastColon(chars, i - 1)

getRelatedGroups(token) ==
    LET at == LastColon(token, Len(token))
    IN  IF at = 0 THEN <<Str(token), Undefined>>
        ELSE <<Str(SubSeq(token, 1, at - 1)), Str(SubSeq(token, at + 1, Len(token)))>>

\* Lines 198-200 and 269-271.
Decode(token) ==
    LET groups == getRelatedGroups(token)
        parsedRelatedId == parseInt(groups[2])
    IN  <<groups[1], IF isNumber(parsedRelatedId) THEN parsedRelatedId ELSE groups[2]>>

\* Lines 197-207: ids grouped by collection, collections in order of first use.
RECURSIVE AddToGroup(_, _, _)
AddToGroup(groups, uid, id) ==
    IF groups = <<>> THEN << [uid |-> uid, ids |-> <<id>>] >>
    ELSE IF Head(groups).uid = uid
         THEN << [uid |-> uid, ids |-> Append(Head(groups).ids, id)] >> \o Tail(groups)
         ELSE << Head(groups) >> \o AddToGroup(Tail(groups), uid, id)

RECURSIVE RelatedGroups(_)
RelatedGroups(list) ==
    IF list = <<>> THEN <<>>
    ELSE LET last == list[Len(list)]
             decoded == Decode(last.related)
         IN  AddToGroup(RelatedGroups(SubSeq(list, 1, Len(list) - 1)),
                        decoded[1].s, decoded[2])

\* Array.from(new Set(ids)): the first occurrence of each value is kept.
RECURSIVE Dedupe(_)
Dedupe(ids) ==
    IF ids = <<>> THEN <<>>
    ELSE LET front == Dedupe(SubSeq(ids, 1, Len(ids) - 1))
             last == ids[Len(ids)]
         IN  IF \E i \in 1..Len(front) : front[i] = last THEN front ELSE Append(front, last)

\* Lines 209-212: the lookups issued, one per collection.
IssuedLookups(list) ==
    LET groups == RelatedGroups(list)
    IN  [i \in 1..Len(groups) |->
           [uid |-> groups[i].uid, ids |-> Dedupe(groups[i].ids),
            status |-> "pending", records |-> <<>>]]

\* The related collection's findMany for where: { id: [...] }, tagged with uid
\* (lines 211-218). NaN equals no id.
RECURSIVE SelectByIds(_, _, _)
SelectByIds(records, ids, uid) ==
    IF records = <<>> THEN <<>>
    ELSE (IF \E i \in 1..Len(ids) : ids[i] # NaN /\ ids[i] = Head(records).id
          THEN << Entity(Str(uid), Head(records).id) >> ELSE <<>>)
         \o SelectByIds(Tail(records), ids, uid)

\* .flat(2) of the per-collection results, in issue order (lines 208-221).
RECURSIVE Flatten(_)
Flatten(done) ==
    IF done = <<>> THEN <<>> ELSE Head(done).records \o Flatten(Tail(done))

\* Line 146.
RECURSIVE AnyTruthy(_)
AnyTruthy(list) ==
    IF list = <<>> THEN FALSE ELSE Truthy(Head(list)) \/ AnyTruthy(Tail(list))

\* Line 228: the first candidate whose `${uid}:${id}` is the comment's token.
RECURSIVE FindRelated(_, _)
MatchesTokenByIdOnly(token, candidate) ==
    getRelatedGroups(token)[2] = Str(TemplateChars(Prop(candidate, "id")))
MatchesToken(token, candidate) ==
    token = TemplateChars(Prop(candidate, "uid")) \o <<":">> \o TemplateChars(Prop(candidate, "id"))

FindRelated(token, candidates) ==
    IF candidates = <<>> THEN Undefined
    ELSE IF MatchesToken(token, Head(candidates)) THEN Head(candidates)
         ELSE FindRelated(token, Tail(candidates))

\* Lines 225-230.
mergeRelatedEntityTo(entity, relatedEntities) ==
    [entity EXCEPT !.related = FindRelated(entity.related.s, relatedEntities)]

\* Lines 148-157; sanitizeCommentEntity keeps the fields modelled here.
ResultItem(entry, query, summaries) ==
    LET threadedItem == CHOOSE item \in Range(summaries) : item.id = entry.id
    IN  [id |-> entry.id,
         related |-> Str(entry.related),
         threadOf |-> IF Truthy(Prop(query, "threadOf")) THEN Prop(query, "threadOf")
                      ELSE IF entry.threadOf # NoParent THEN Num(entry.threadOf) ELSE Null,
         gotThread |-> threadedItem.itemsInTread > 0,
         threadFirstItemId |-> threadedItem.firstThreadItemId]

\* Lines 145-164.
Response(relatedEntities) ==
    LET hasRelatedEntitiesToMap == AnyTruthy(relatedEntities)
        list == [i \in 1..Len(entries) |->
                   ResultItem(entries[i], flatArgs.query, entriesWithThreads)]
        data == IF hasRelatedEntitiesToMap
                THEN [i \in 1..Len(list) |-> mergeRelatedEntityTo(list[i], relatedEntities)]
                ELSE list
    IN  IF meta = EmptyObj THEN [k \in {"data"} |-> data]
        ELSE [k \in {"data", "meta"} |-> IF k = "data" THEN data ELSE meta]

\* Lines 47-104: the pagination is compiled and findMany is issued.
FindAllFlat(pagination, query, relatedEntity) ==
    /\ flatPc = "idle"
    /\ flatArgs' = [pagination |-> pagination, query |-> query,
                    relatedEntity |-> relatedEntity]
    /\ queryExtension' = QueryExtension(pagination)
    /\ meta' = MetaPagination(pagination)
    /\ flatPc' = "findMany"
    /\ UNCHANGED <<entries, entriesWithThreads, lookups, arrival, response>>
    /\ UNCHANGED <<sharedVars, cascadeVars, codecVars>>

\* Lines 103-113 return; the count (line 116) or the annotation (line 135) is issued.
FlatFindMany ==
    /\ flatPc = "findMany"
    /\ HandleDefined("db")
    /\ entries' = StoreFindMany(flatArgs.query, queryExtension)
    /\ flatPc' = IF WithCountRequested(flatArgs.pagination) THEN "count" ELSE "annotate"
    /\ UNCHANGED <<flatArgs, queryExtension, meta, entriesWithThreads, lookups, arrival, response>>
    /\ UNCHANGED <<sharedVars, cascadeVars, codecVars>>

\* Lines 116-133.
FlatCount ==
    /\ flatPc = "count"
    /\ meta' = MetaWithCount(meta, Num(Len(Matching(flatArgs.query))))
    /\ flatPc' = "annotate"
    /\ UNCHANGED <<flatArgs, queryExtension, entries, entriesWithThreads, lookups, arrival, response>>
    /\ UNCHANGED <<sharedVars, cascadeVars, codecVars>>

\* Lines 135-145: the annotations are in; with no related entity supplied the
\* per-collection lookups are issued, otherwise the supplied one is the list.
FlatAnnotate ==
    /\ flatPc = "annotate"
    /\ entriesWithThreads' = [i \in 1..Len(entries) |-> ThreadSummary(entries[i])]
    /\ IF flatArgs.relatedEntity # Null
       THEN /\ flatPc' = "merge"
            /\ UNCHANGED lookups
       ELSE /\ flatPc' = "lookups"
            /\ lookups' = IssuedLookups(entries)
    /\ UNCHANGED <<flatArgs, queryExtension, meta, entries, arrival, response>>
    /\ UNCHANGED <<sharedVars, cascadeVars, codecVars>>

\* Lines 211-218: one of the pending lookups completes.
FlatLookupDone(i) ==
    /\ flatPc = "lookups"
    /\ i \in 1..Len(lookups)
    /\ lookups[i].status = "pending"
    /\ lookups' = [lookups EXCEPT
          ![i].status = "done",
          ![i].records = SelectByIds(RelatedCollections[lookups[i].uid],
                                     lookups[i].ids, lookups[i].uid)]
    /\ arrival' = Append(arrival, i)
    /\ UNCHANGED <<flatPc, flatArgs, queryExtension, meta, entries, entriesWithThreads, response>>
    /\ UNCHANGED <<sharedVars, cascadeVars, codecVars>>

\* Lines 145-164 with the lookups awaited jointly.
FlatReturnLooked ==
    /\ flatPc = "lookups"
    /\ \A i \in 1..Len(lookups) : lookups[i].status = "done"
    /\ response' = Response(Flatten(lookups))
    /\ flatPc' = "done"
    /\ UNCHANGED <<flatArgs, queryExtension, meta, entries, entriesWithThreads, lookups, arrival>>
    /\ UNCHANGED <<sharedVars, cascadeVars, codecVars>>

\* Lines 145-164 with the related entity supplied by the caller.
FlatReturnSupplied ==
    /\ flatPc = "merge"
    /\ response' = Response(<<flatArgs.relatedEntity>>)
    /\ flatPc' = "done"
    /\ UNCHANGED <<flatArgs, queryExtension, meta, entries, entriesWithThreads, lookups, arrival>>
    /\ UNCHANGED <<sharedVars, cascadeVars, codecVars>>

InitFlat ==
    /\ strapi = {"db"}
    /\ \E n \in StoreSizes : store = FlatStore(n)
    /\ CascadeIdle
    /\ FlatIdle
    /\ CodecIdle

NextFlat ==
    \/ \E page \in PageInputs, pageSize \in PageSizeInputs, start \in StartInputs,
         limit \in LimitInputs, withCount \in WithCountInputs,
         query \in QueryInputs, relatedEntity \in RelatedEntityInputs :
           FindAllFlat(PaginationObj(page, pageSize, start, limit, withCount),
                       query, relatedEntity)
    \/ \E query \in QueryInputs, relatedEntity \in RelatedEntityInputs :
           FindAllFlat(Undefined, query, relatedEntity)
    \/ FlatFindMany
    \/ FlatCount
    \/ FlatAnnotate
    \/ \E i \in 1..Len(TokenCycle) : FlatLookupDone(i)
    \/ FlatReturnLooked
    \/ FlatReturnSupplied

SpecFlat == InitFlat /\ [][NextFlat]_vars

----------------------------------------------------------------------------
(* Properties of findAllFlat *)

\* The integer a pagination value denotes: the number itself, or the number
\* whose decimal notation the string is.
Denoted(x) ==
    IF x.t = "number" THEN x.v
    ELSE CHOOSE n \in 0..(10 * MaxFlat) : IntToChars(n) = x.s

Given(key) == key \in DOMAIN flatArgs.pagination
GivenOr(key, default) ==
    IF Given(key) THEN Denoted(flatArgs.pagination[key]) ELSE default

FlatCalled == flatPc # "idle"
Paginated == FlatCalled /\ flatArgs.pagination # Undefined
PageMode == Given("page") \/ Given("pageSize")

ExpectedOffset ==
    IF PageMode THEN (GivenOr("page", 1) - 1) * GivenOr("pageSize", 10)
    ELSE GivenOr("start", 0)
ExpectedLimit ==
    IF PageMode THEN GivenOr("pageSize", 10) ELSE GivenOr("limit", 10)

MatchingIds(where) == { c \in DOMAIN store : Matches(store[c], where) }

\* The k-th smallest element of a set of numbers.
RECURSIVE Kth(_, _)
Kth(S, k) ==
    LET least == CHOOSE x \in S : \A y \in S : x <= y
    IN  IF k = 1 THEN least ELSE Kth(S \ {least}, k - 1)

ExpectedDataIds ==
    LET ids == MatchingIds(flatArgs.query)
        first == ExpectedOffset + 1
        last == Min(Cardinality(ids), ExpectedOffset + ExpectedLimit)
    IN  [i \in 1..(IF last >= first THEN last - first + 1 ELSE 0) |->
            Kth(ids, ExpectedOffset + i)]

DataIds == [i \in 1..Len(response["data"]) |-> response["data"][i].id]

\* C4: with page or pageSize given, the query gets offset = (page-1)*pageSize
\* and limit = pageSize (defaults 1 and 10) and the metadata holds page and
\* pageSize; otherwise the query gets offset = start and limit = limit
\* (defaults 0 and 10) and the metadata holds start and limit. The data are
\* the records at that offset, in natural order.
C4_PaginationCompiled ==
    Paginated =>
        LET mp == meta["pagination"]
        IN  /\ queryExtension["offset"] = Num(ExpectedOffset)
            /\ queryExtension["limit"] = Num(ExpectedLimit)
            /\ PageMode =>
                  /\ Prop(mp, "page") = Num(GivenOr("page", 1))
                  /\ Prop(mp, "pageSize") = Num(GivenOr("pageSize", 10))
                  /\ DOMAIN mp \cap {"start", "limit"} = {}
            /\ ~PageMode =>
                  /\ Prop(mp, "start") = Num(GivenOr("start", 0))
                  /\ Prop(mp, "limit") = Num(GivenOr("limit", 10))
                  /\ DOMAIN mp \cap {"page", "pageSize"} = {}
            /\ flatPc = "done" =>
                  /\ response["meta"] = meta
                  /\ DataIds = ExpectedDataIds

\* Ten records, {page: 2, pageSize: 5}, no filter: records 6..10.
C4_Witness ==
    /\ flatPc = "done"
    /\ Cardinality(DOMAIN store) = 10
    /\ flatArgs.query = EmptyObj
    /\ flatArgs.pagination = PaginationObj(Num(2), Str(<<"5">>), Undefined, Undefined, Undefined)
    /\ DataIds = <<6, 7, 8, 9, 10>>
    /\ response["meta"] = [k \in {"pagination"} |->
                              [j \in {"page", "pageSize"} |->
                                  IF j = "page" THEN Num(2) ELSE Num(5)]]

CountRequested ==
    /\ Paginated
    /\ Given("withCount")
    /\ flatArgs.pagination["withCount"] \in {Bool(TRUE), Str(TrueChars)}

Counted == flatPc \in {"annotate", "lookups", "merge", "done"}

\* C5: with withCount true or "true", total is the number of records that
\* match the criteria of the main fetch; in page mode pageCount is
\* total / pageSize when that is exact and floor(total / pageSize) + 1
\* otherwise; in start/limit mode there is no pageCount and total is there.
C5_PageCount ==
    (CountRequested /\ Counted) =>
        LET mp == meta["pagination"]
            total == Cardinality(MatchingIds(flatArgs.query))
            pageSize == GivenOr("pageSize", 10)
        IN  /\ Prop(mp, "total") = Num(total)
            /\ PageMode =>
                  Prop(mp, "pageCount") =
                      Num(IF total % pageSize = 0 THEN total \div pageSize
                          ELSE (total \div pageSize) + 1)
            /\ ~PageMode => Prop(mp, "pageCount") = Undefined
            /\ flatPc = "done" => response["meta"] = meta

\* 11 records and pageSize 5 give pageCount 3.
C5_Witness ==
    /\ flatPc = "done"
    /\ CountRequested
    /\ flatArgs.pagination["withCount"] = Str(TrueChars)
    /\ Prop(flatArgs.pagination, "pageSize") = Num(5)
    /\ response["meta"]["pagination"]["total"] = Num(11)
    /\ response["meta"]["pagination"]["pageCount"] = Num(3)

\* The collection part of a token.
TokenUid(token) == getRelatedGroups(token)[1].s

EntryUids == { TokenUid(entries[i].related) : i \in 1..Len(entries) }

\* With no related entity supplied: one lookup per distinct collection, for
\* the ids of its comments without repetition, and a comment for which a
\* fetched record spells its token carries that record.
BatchPath ==
    /\ Len(lookups) = Cardinality(EntryUids)
    /\ { lookups[i].uid : i \in 1..Len(lookups) } = EntryUids
    /\ \A i \in 1..Len(lookups) :
          /\ Range(lookups[i].ids) =
                { Decode(entries[j].related)[2] :
                    j \in { k \in 1..Len(entries) :
                              TokenUid(entries[k].related) = lookups[i].uid } }
          /\ \A a, b \in 1..Len(lookups[i].ids) :
                lookups[i].ids[a] = lookups[i].ids[b] => a = b
    /\ \A i \in 1..Len(entries) :
          \A l \in 1..Len(lookups) :
             \A r \in Range(lookups[l].records) :
                Encode(r.uid.s, r.id) = entries[i].related
                   => response["data"][i].related = r

NoLookupIssued == lookups = <<>> /\ arrival = <<>>

\* C8 as claimed: with a related entity supplied there is no lookup and the
\* related field stays the raw token.
C8_SuppliedLeavesRawToken ==
    flatPc = "done" =>
        /\ flatArgs.relatedEntity = Null => BatchPath
        /\ flatArgs.relatedEntity # Null =>
              /\ NoLookupIssued
              /\ \A i \in 1..Len(entries) :
                    response["data"][i].related = Str(entries[i].related)

\* C8: with no related entity supplied the lookups are batched per collection
\* and merged by token, whatever the order in which they complete; with one
\* supplied there is no lookup, and the supplied entity is the only candidate
\* of the merge: a comment whose token it spells carries it, any other comment
\* carries undefined; a supplied value that is not null but falsy leaves the
\* raw token.
C8_RelatedResolved ==
    flatPc = "done" =>
        /\ flatArgs.relatedEntity = Null => BatchPath
        /\ flatArgs.relatedEntity # Null =>
              /\ NoLookupIssued
              /\ \A i \in 1..Len(entries) :
                    response["data"][i].related =
                        IF ~Truthy(flatArgs.relatedEntity) THEN Str(entries[i].related)
                        ELSE IF entries[i].related =
                                  TemplateChars(flatArgs.relatedEntity.uid) \o <<":">>
                                  \o TemplateChars(flatArgs.relatedEntity.id)
                             THEN flatArgs.relatedEntity
                             ELSE Undefined

\* Three lookups completed out of issue order, a repeated id sent once, and
\* comments of two collections with the same record id each merged with their own.
C8_Witness ==
    /\ flatPc = "done"
    /\ flatArgs.relatedEntity = Null
    /\ Len(arrival) = 3 /\ arrival[1] > arrival[2]
    /\ \E i \in 1..Len(lookups) : Len(lookups[i].ids) < Len(RelatedGroups(entries)[i].ids)
    /\ \E i, j \in 1..Len(entries) :
          /\ response["data"][i].related = Entity(Str(Art), Num(1))
          /\ response["data"][j].related = Entity(Str(Pg), Num(1))

----------------------------------------------------------------------------
(* getConfig, getLocalConfig and parseRelationString *)

Arr(items) == [t |-> "array", a |-> items]

ConfigKeys == {"enabledCollections", "badWords", "gql"}

\* A configuration object holding the keys that were given.
ConfigObj(enabledCollections, badWords, gql) ==
    LET all == [k \in ConfigKeys |->
                  CASE k = "enabledCollections" -> enabledCollections
                    [] k = "badWords" -> badWords
                    [] k = "gql" -> gql]
    IN  [k \in {"t"} \cup {x \in ConfigKeys : all[x] # Undefined} |->
            IF k = "t" THEN "object" ELSE all[k]]

ConfigDocs ==
    { ConfigObj(ec, bw, gql) :
        ec \in {Undefined, Null, Arr(<<Str(Art)>>), Arr(<<Str(Art), Str(Pg)>>)},
        bw \in {Undefined, Bool(FALSE)},
        gql \in {Undefined, [k \in {"t", "auth"} |-> IF k = "t" THEN "object" ELSE Bool(TRUE)]} }

\* Dotted paths, kept as the sequence of their keys; the empty path is no path.
ConfigPaths ==
    { <<>>, <<"enabledCollections">>, <<"badWords">>, <<"gql">>, <<"gql", "auth">> }

DefaultInputs == { Undefined, Arr(<<>>), Bool(TRUE) }

\* A property read, undefined on anything that is not an object.
Member(x, key) ==
    IF x.t = "object" /\ key # "t" THEN Prop(x, key) ELSE Undefined

\* lodash baseGet: the walk stops at null or undefined.
RECURSIVE baseGet(_, _)
baseGet(object, path) ==
    IF path = <<>> THEN object
    ELSE IF isNil(object) THEN Undefined
         ELSE baseGet(Member(object, Head(path)), Tail(path))

\* lodash get(object, path, defaultValue).
get(object, path, defaultValue) ==
    LET found == IF isNil(object) THEN Undefined ELSE baseGet(object, path)
    IN  IF found = Undefined THEN defaultValue ELSE found

\* strapi.config.get('plugin.comments' + ...), lines 40-44.
getLocalConfig(queryProp, defaultValue) ==
    LET found == baseGet(localConfig, queryProp)
    IN  IF isNil(found) THEN defaultValue ELSE found

\* Lines 22-34.
getConfigMerging(prop, defaultValue, useLocal) ==
    LET config == remoteConfig
        fromRemote == IF prop # <<>> THEN get(config, prop, Undefined) ELSE config
        found == IF Truthy(config) /\ ~useLocal /\ ~isNil(fromRemote)
                 THEN fromRemote
                 ELSE getLocalConfig(prop, defaultValue)
    IN  IF isNil(found) THEN defaultValue ELSE found
getConfig(prop, defaultValue, useLocal) ==
    LET config == remoteConfig
        found == IF Truthy(config) /\ ~useLocal
                 THEN IF prop # <<>> THEN get(config, prop, defaultValue) ELSE config
                 ELSE getLocalConfig(prop, defaultValue)
    IN  IF isNil(found) THEN defaultValue ELSE found

\* enabledCollections.includes(uid)
Includes(list, item) == \E i \in 1..Len(list.a) : list.a[i] = item

\* Lines 268-278.
parseRelationString(relation) ==
    LET decoded == Decode(relation)
        enabledCollections == getConfig(<<"enabledCollections">>, Arr(<<>>), FALSE)
    IN  IF ~Includes(enabledCollections, decoded[1])
        THEN [outcome |-> "thrown", status |-> Num(403)]
        ELSE [outcome |-> "returned", uid |-> decoded[1], relatedId |-> decoded[2]]

RelationUids == {Art, Pg, Tag}
RelationIds ==
    { Num(42), Num(7), Str(<<"a", "b", "c">>), Str(<<"4", "a">>), Str(<<"a", "1">>) }

GetConfig(prop, defaultValue, useLocal) ==
    /\ codecCall' = [op |-> "getConfig", prop |-> prop,
                     defaultValue |-> defaultValue, useLocal |-> useLocal]
    /\ codecResult' = [outcome |-> "returned",
                       value |-> getConfig(prop, defaultValue, useLocal)]
    /\ UNCHANGED <<remoteConfig, localConfig>>
    /\ UNCHANGED <<sharedVars, cascadeVars, flatVars>>

\* The caller encodes a collection id and a record id and has the token parsed.
ParseRelationString(uid, id) ==
    /\ codecCall' = [op |-> "parseRelationString", uid |-> uid, id |-> id,
                     relation |-> Encode(uid, id)]
    /\ codecResult' = parseRelationString(Encode(uid, id))
    /\ UNCHANGED <<remoteConfig, localConfig>>
    /\ UNCHANGED <<sharedVars, cascadeVars, flatVars>>

InitCodec ==
    /\ strapi = {"db"}
    /\ store = FlatStore(0)
    /\ CascadeIdle
    /\ FlatIdle
    /\ remoteConfig \in {Null} \cup ConfigDocs
    /\ localConfig \in {Undefined} \cup ConfigDocs
    /\ codecCall = EmptyObj
    /\ codecResult = EmptyObj

NextCodec ==
    \/ \E prop \in ConfigPaths, defaultValue \in DefaultInputs, useLocal \in BOOLEAN :
          GetConfig(prop, defaultValue, useLocal)
    \/ \E uid \in RelationUids, id \in RelationIds : ParseRelationString(uid, id)

SpecCodec == InitCodec /\ [][NextCodec]_vars

----------------------------------------------------------------------------
(* Properties of the codec and of the configuration resolver *)

IsCall(op) == codecCall # EmptyObj /\ codecCall.op = op

\* C6: the decoded recordId is a number when its text is the notation of an
\* integer, and the text itself when it has no integer to parse.
C6_DecodeKeepsNonIntegerText ==
    (IsCall("parseRelationString") /\ codecResult.outcome = "returned") =>
        /\ codecResult.uid = Str(codecCall.uid)
        /\ codecCall.id.t = "number" => codecResult.relatedId = codecCall.id
        /\ (codecCall.id.t = "string" /\ ~IsDigit(Head(codecCall.id.s)))
              => codecResult.relatedId = codecCall.id

\* C7: one source per call: the remote document when useLocal is false and it
\* exists, the local configuration otherwise; a nil resolution gives the default.
C7_OneSourcePerCall ==
    IsCall("getConfig") =>
        LET source == IF ~codecCall.useLocal /\ remoteConfig # Null
                      THEN remoteConfig ELSE localConfig
            resolved == baseGet(source, codecCall.prop)
        IN  /\ codecResult.value =
                  IF isNil(resolved) THEN codecCall.defaultValue ELSE resolved
            /\ ~isNil(codecCall.defaultValue) => ~isNil(codecResult.value)

\* The path is missing in the remote document and defined locally: the default.
C7_Witness ==
    /\ IsCall("getConfig")
    /\ ~codecCall.useLocal
    /\ remoteConfig # Null
    /\ codecCall.prop = <<"gql", "auth">>
    /\ baseGet(remoteConfig, codecCall.prop) = Undefined
    /\ baseGet(localConfig, codecCall.prop) = Bool(TRUE)
    /\ codecCall.defaultValue = Arr(<<>>)
    /\ codecResult.value = Arr(<<>>)

====
